---------------------------- MODULE Spec2Model ----------------------------
(***************************************************************************)
(* A model of gemlite/core.py: the two quantized linear operators          *)
(* (GemLiteLinearCUDA, layout A; GemLiteLinearTriton, layout B), their     *)
(* constructors, pack / unpack, and the process-wide autotune cache        *)
(* GEMLITE_TRITON_CACHE consulted by GemLiteLinearTriton.forward_auto.     *)
(*                                                                         *)
(* Conventions.  A Python value that may be absent or of several types is  *)
(* a record with a "kind" field (unset / None / scalar / tensor / meta).   *)
(* int32 tensor elements are kept as signed 32-bit integers; shifts and    *)
(* ors work on their 32 two's-complement bits.  Floating point metadata    *)
(* (scales, zeros, bias) is kept by shape only.  The external collaborators*)
(* (the kernels, do_bench) are nondeterministic: a benchmark returns a     *)
(* latency or raises, a kernel call returns or raises.                     *)
(***************************************************************************)
EXTENDS Integers, Sequences, FiniteSets, TLC

VARIABLES
    objs,       \* operator objects: slot -> object record, or NoObj
    cache,      \* GEMLITE_TRITON_CACHE: signature -> [forward, time]
    thr,        \* callers: thread -> position and locals of its forward call
    ncalls,     \* number of forward calls started so far
    npass,      \* signature -> number of benchmarking passes that published
    ctor,       \* outcome of the last constructor call
    packin,     \* arguments of the last pack call
    unp,        \* outcome of the last unpack call
    npacks      \* number of pack calls so far

vars == <<objs, cache, thr, ncalls, npass, ctor, packin, unp, npacks>>

---------------------------------------------------------------------------
(* Bounds of the model *)

MaxThreads == 2     \* concurrent callers of forward
MaxCalls == 3       \* forward calls per behaviour
MaxLatency == 2     \* latencies returned by do_bench: 1..MaxLatency
MaxTiles == 1       \* in_features of a packed Triton operator: 128 * (1..MaxTiles)
OutSlice == 2       \* output rows of a layout B tensor carried by the model
MaxPacks == 1       \* pack calls per behaviour

(* Program constants *)

TileGranularity == 128   \* in_features % 128, out_features % 128
WordBits == 32           \* elements_per_sample = 32 // W_nbits
GemvMaxBatch == 8        \* signature[0] > 8 skips GEMV
WarpSize == 32           \* GemLiteLinearCUDA.warp_size
ColsPerWarp == 1         \* GemLiteLinearCUDA.cols_per_warp

NoneInt == 0 - 1         \* Python None where an integer is expected (group_size)

---------------------------------------------------------------------------
(* Python values *)

Unset == [kind |-> "unset"]          \* attribute never assigned
PyNone == [kind |-> "None"]
Scalar == [kind |-> "scalar"]        \* a Python number
Meta(shape) == [kind |-> "meta", shape |-> shape]       \* torch.zeros on device "meta"
FloatTensor(shape) == [kind |-> "tensor", shape |-> shape]

NoObj == [cls |-> "none"]

Numel(shape) == IF Len(shape) = 0 THEN 1
                ELSE IF Len(shape) = 1 THEN shape[1]
                ELSE IF Len(shape) = 2 THEN shape[1] * shape[2]
                ELSE shape[1] * shape[2] * shape[3]

cdiv(a, b) == (a + b - 1) \div b

---------------------------------------------------------------------------
(* Kernels: .triton_kernels and gemlite_lib *)

GEMM == "gemm_A16fWnO16f_int32packing"
GEMV == "gemv_A16fWnO16f_int32packing"
NoKernel == "none"

matmul_type(kernel) == IF kernel = GEMV THEN "GEMV" ELSE "GEMM"

\* GEMLITE_TRITON_MAPPING
GEMLITE_TRITON_MAPPING ==
    [k \in {<<"FP16", "GEMV">>, <<"FP16", "GEMM">>, <<"BF16", "GEMM">>} |->
        IF k[2] = "GEMV" THEN GEMV ELSE GEMM]

\* GEMLITE_GEMV_FP16_INPUT_FP16_OUTPUT
GEMLITE_GEMV_FP16_INPUT_FP16_OUTPUT ==
    [n \in {8, 4, 2} |->
        IF n = 8 THEN "gemv_A16fW8iO16f" ELSE IF n = 4 THEN "gemv_A16fW4iO16f"
        ELSE "gemv_A16fW2iO16f"]

\* GEMLITE_GEMV_INT8_INPUT_INT32_OUTPUT
GEMLITE_GEMV_INT8_INPUT_INT32_OUTPUT ==
    [n \in {8, 4, 2} |->
        IF n = 8 THEN "gemv_A8iW8iO32i" ELSE IF n = 4 THEN "gemv_A8iW4iO32i"
        ELSE "gemv_A8iW2iO32i"]

---------------------------------------------------------------------------
(* Constructors.  Each returns [outcome, self, buffers]: outcome is "ok" or *)
(* the exception raised, self the object (NoObj when the constructor      *)
(* raised), buffers the buffers registered before it returned or raised.  *)

Args(nbits, gs, inf, outf, idt, odt) ==
    [W_nbits |-> nbits, group_size |-> gs, in_features |-> inf,
     out_features |-> outf, input_dtype |-> idt, output_dtype |-> odt]

Raised(exc) == [outcome |-> exc, self |-> NoObj, buffers |-> {}]

_SUPPORTED_BITS_TRITON == {1, 2, 4, 8}

\* GemLiteLinearTriton.__init__: the candidate list of a dtype pair
TritonKernels(idt, odt) ==
    IF idt = "FP16" /\ odt = "FP16" THEN <<GEMM, GEMV>>
    ELSE IF idt = "BF16" /\ odt = "BF16" THEN <<GEMM>>
    ELSE <<>>

TritonComputeDtype(idt, odt) ==
    IF idt = "FP16" /\ odt = "FP16" THEN "float16"
    ELSE IF idt = "BF16" /\ odt = "BF16" THEN "bfloat16"
    ELSE "None"

\* a plausible slip: the shape check placed before the bit-width check
TritonValidateShapeFirst(a) ==
    IF a.in_features % TileGranularity # 0 \/ a.out_features % TileGranularity # 0
    THEN "NotImplementedError: Invalid input shapes"
    ELSE IF a.W_nbits \notin _SUPPORTED_BITS_TRITON
    THEN "NotImplementedError: Only 2,4,8 W_nbits are supported."
    ELSE IF TritonComputeDtype(a.input_dtype, a.output_dtype) = "None"
    THEN "NotImplementedError: Unsupport settings"
    ELSE "ok"

\* a plausible slip: the dtype pair resolved before the shape is checked
TritonValidateDtypeFirst(a) ==
    IF a.W_nbits \notin _SUPPORTED_BITS_TRITON
    THEN "NotImplementedError: Only 2,4,8 W_nbits are supported."
    ELSE IF TritonComputeDtype(a.input_dtype, a.output_dtype) = "None"
    THEN "NotImplementedError: Unsupport settings"
    ELSE IF a.in_features % TileGranularity # 0 \/ a.out_features % TileGranularity # 0
    THEN "NotImplementedError: Invalid input shapes"
    ELSE "ok"

\* GemLiteLinearTriton.__init__: the checks, in the order the code makes them
TritonValidate(a) ==
    IF a.W_nbits \notin _SUPPORTED_BITS_TRITON
    THEN "NotImplementedError: Only 2,4,8 W_nbits are supported."
    ELSE IF a.in_features % TileGranularity # 0 \/ a.out_features % TileGranularity # 0
    THEN "NotImplementedError: Invalid input shapes"
    ELSE IF TritonComputeDtype(a.input_dtype, a.output_dtype) = "None"
    THEN "NotImplementedError: Unsupport settings"
    ELSE "ok"

\* GemLiteLinearTriton.__init__
TritonInit(a) ==
    IF TritonValidate(a) # "ok" THEN Raised(TritonValidate(a))
    ELSE
      LET group_size == IF a.group_size # NoneInt THEN a.group_size ELSE a.in_features
          num_groups == cdiv(a.in_features, group_size)
      IN [outcome |-> "ok",
          buffers |-> {"W_q", "scales", "zeros"},
          self |->
            [cls |-> "Triton",
             in_features |-> a.in_features,
             out_features |-> a.out_features,
             W_nbits |-> a.W_nbits,
             group_size |-> group_size,
             unpack_mask |-> 2 ^ a.W_nbits - 1,
             elements_per_sample |-> WordBits \div a.W_nbits,
             signature |-> <<a.in_features, a.out_features, a.W_nbits, a.group_size>>,
             input_dtype |-> a.input_dtype,
             output_dtype |-> a.output_dtype,
             kernels |-> TritonKernels(a.input_dtype, a.output_dtype),
             compute_dtype |-> TritonComputeDtype(a.input_dtype, a.output_dtype),
             kernel_fct |-> NoKernel,
             zero_is_tensor |-> "unset",
             has_scales |-> "unset",
             W_q |-> Meta(<<(a.in_features \div 32) * a.W_nbits, a.out_features>>),
             W_q_packed |-> Unset,
             scales |-> Meta(<<num_groups, a.out_features>>),
             zeros |-> Meta(<<num_groups, a.out_features>>),
             bias |-> Unset]]

\* GemLiteLinearCUDA.__init__
CudaInit(a) ==
    LET fp16 == a.input_dtype = "FP16" /\ a.output_dtype = "FP16"
        int8 == a.input_dtype = "INT8" /\ a.output_dtype = "INT32"
        base == [cls |-> "CUDA",
                 in_features |-> a.in_features,
                 out_features |-> a.out_features,
                 W_nbits |-> a.W_nbits,
                 group_size |-> IF a.group_size # NoneInt THEN a.group_size
                                ELSE a.in_features,
                 unpack_mask |-> 0,
                 elements_per_sample |-> 0,
                 signature |-> <<a.in_features, a.out_features, a.W_nbits, a.group_size>>,
                 input_dtype |-> a.input_dtype,
                 output_dtype |-> a.output_dtype,
                 kernels |-> <<>>,
                 compute_dtype |-> "float16",
                 kernel_fct |-> NoKernel,
                 zero_is_tensor |-> "unset",
                 has_scales |-> "unset",
                 W_q |-> Unset,
                 W_q_packed |-> Unset,
                 scales |-> Unset,
                 zeros |-> Unset,
                 bias |-> Unset]
        ok(self) == [outcome |-> "ok", self |-> self, buffers |-> {}]
    IN
    IF fp16 THEN
        IF a.W_nbits \notin DOMAIN GEMLITE_GEMV_FP16_INPUT_FP16_OUTPUT
        THEN Raised("KeyError")
        ELSE IF a.group_size = NoneInt THEN Raised("TypeError")
        ELSE IF (a.in_features * a.out_features) % a.group_size = 0
        THEN ok([base EXCEPT !.kernel_fct = GEMLITE_GEMV_FP16_INPUT_FP16_OUTPUT[a.W_nbits],
                             !.zero_is_tensor = "True",
                             !.has_scales = "True"])
        ELSE Raised("NotImplementedError: Unsupport configuration")
    ELSE IF int8 THEN
        IF a.W_nbits \notin DOMAIN GEMLITE_GEMV_INT8_INPUT_INT32_OUTPUT
        THEN Raised("KeyError")
        ELSE IF a.group_size = a.in_features * a.out_features
        THEN ok([base EXCEPT !.kernel_fct = GEMLITE_GEMV_INT8_INPUT_INT32_OUTPUT[a.W_nbits],
                             !.zero_is_tensor = "False",
                             !.has_scales = "False"])
        ELSE Raised("NotImplementedError: Unsupport configuration")
    ELSE Raised("NotImplementedError: Unsupport configuration")

---------------------------------------------------------------------------
(* int32 arithmetic of torch tensors.  A word is a signed 32-bit integer;  *)
(* << and | act on its two's-complement bits, >> is arithmetic.            *)

BitIdx == 0 .. (WordBits - 1)

Bits(x) == [i \in BitIdx |->
              IF i = WordBits - 1 THEN (IF x < 0 THEN 1 ELSE 0)
              ELSE (x \div (2 ^ i)) % 2]

RECURSIVE LowSum(_, _)
LowSum(b, i) == IF i < 0 THEN 0 ELSE b[i] * (2 ^ i) + LowSum(b, i - 1)

FromBits(b) == IF b[WordBits - 1] = 1
               THEN (LowSum(b, WordBits - 2) - 2 ^ (WordBits - 2)) - 2 ^ (WordBits - 2)
               ELSE LowSum(b, WordBits - 2)

\* acc = 0; for i in 1 .. Len(vals): acc |= vals[i] << shifts[i]
\* on int32: bit b of the result is set iff bit b - shifts[i] of some vals[i]
\* is; bits shifted past bit 31 are lost, bit 31 is the sign
OrOfShifted(vals, shifts) ==
    LET vb == [i \in 1 .. Len(vals) |-> Bits(vals[i])]
    IN FromBits([b \in BitIdx |->
                   IF \E i \in 1 .. Len(vals) : b >= shifts[i] /\ vb[i][b - shifts[i]] = 1
                   THEN 1 ELSE 0])

\* x >> s on int32 (arithmetic: the sign bit is replicated)
Shr32(x, s) == x \div (2 ^ s)

\* x & mask for a mask 2^n - 1, n <= 8
AndMask(x, mask) == x % (mask + 1)

---------------------------------------------------------------------------
(* Tensors of integers: [kind, shape, data], data[r][c] with 0-based       *)
(* indices.  A layout B tensor carries the first OutSlice output rows      *)
(* (columns once transposed); every statement of GemLiteLinearTriton.pack  *)
(* acts on each output row independently.                                  *)

IntTensor(shape, data) == [kind |-> "tensor", shape |-> shape, data |-> data]

IsTensor(v) == v.kind = "tensor"

Min(a, b) == IF a < b THEN a ELSE b

\* the columns of a layout B row vector that the model carries
SliceCols(outf) == 0 .. (Min(outf, OutSlice) - 1)

\* a plausible slip: layout A's bit order (first code in the top bits)
TritonPackWordMsbFirst(Wt, o, row, step, nbits) ==
    OrOfShifted([f \in 1 .. step |-> Wt[row * step + f - 1][o]],
                [f \in 1 .. step |-> WordBits - f * nbits])

\* the loop body of GemLiteLinearTriton.pack for one packed word:
\*   shift = 0
\*   for j in range(i, i + step): W_q[row] |= W_q[j] << shift; shift += W_nbits
TritonPackWord(Wt, o, row, step, nbits) ==
    OrOfShifted([f \in 1 .. step |-> Wt[row * step + f - 1][o]],
                [f \in 1 .. step |-> (f - 1) * nbits])

\* the packed words of GemLiteLinearTriton.pack: Wt is the transposed code
\* tensor (in_features rows), the result has Wt.shape[0] // 32 * W_nbits rows
TritonPackWords(Wt, rowsIn, outf, nbits) ==
    LET step == WordBits \div nbits
        rows == (rowsIn \div 32) * nbits
    IN [row \in 0 .. (rows - 1) |->
          [o \in SliceCols(outf) |->
             TritonPackWord(Wt, o, row, step, nbits)]]

\* scales.reshape((out_features, num_groups)).t().contiguous()
ReshapeMeta(m, outf, num_groups) ==
    IF ~IsTensor(m) THEN [outcome |-> "AttributeError", value |-> Unset]
    ELSE IF Numel(m.shape) # outf * num_groups
    THEN [outcome |-> "RuntimeError: shape is invalid for input", value |-> Unset]
    ELSE [outcome |-> "ok", value |-> FloatTensor(<<num_groups, outf>>)]

\* bias.to(device, dtype) wrapped in a Parameter, or None
PackBias(bias) ==
    IF bias.kind = "None" THEN [outcome |-> "ok", value |-> PyNone]
    ELSE IF ~IsTensor(bias) THEN [outcome |-> "AttributeError", value |-> Unset]
    ELSE [outcome |-> "ok", value |-> FloatTensor(bias.shape)]

\* GemLiteLinearTriton.pack: [outcome, self]; self is the object as the call
\* leaves it, also when it raises part-way
TritonPackCodes(self, W_q) ==
    IF Numel(W_q.shape) # self.out_features * self.in_features
    THEN [outcome |-> "RuntimeError: shape is invalid for input", self |-> self]
    ELSE
      LET Wt == [j \in 0 .. (self.in_features - 1) |->
                   [o \in SliceCols(self.out_features) |-> W_q.data[o][j]]]
          rows == (self.in_features \div 32) * self.W_nbits
      IN [outcome |-> "ok",
          self |-> [self EXCEPT !.W_q =
                      IntTensor(<<rows, self.out_features>>,
                                TritonPackWords(Wt, self.in_features, self.out_features,
                                                self.W_nbits))]]

\* the rest of GemLiteLinearTriton.pack, after the packed codes are stored:
\* packed is the result of TritonPackCodes
TritonPackMeta(packed, scales, zeros, bias) ==
    IF packed.outcome # "ok" THEN packed
    ELSE
      LET s1 == packed.self
          num_groups == s1.in_features \div s1.group_size
          sc == ReshapeMeta(scales, s1.out_features, num_groups)
          s2 == [s1 EXCEPT !.scales = sc.value]
          ze == ReshapeMeta(zeros, s1.out_features, num_groups)
          s3 == [s2 EXCEPT !.zeros = ze.value]
          bi == PackBias(bias)
      IN IF sc.outcome # "ok" THEN [outcome |-> sc.outcome, self |-> s1]
         ELSE IF ze.outcome # "ok" THEN [outcome |-> ze.outcome, self |-> s2]
         ELSE IF bi.outcome # "ok" THEN [outcome |-> bi.outcome, self |-> s3]
         ELSE [outcome |-> "ok", self |-> [s3 EXCEPT !.bias = bi.value]]

TritonPack(self, W_q, scales, zeros, bias) ==
    TritonPackMeta(TritonPackCodes(self, W_q), scales, zeros, bias)

---------------------------------------------------------------------------
(* Layout A: GemLiteLinearCUDA.pack / unpack *)

\* threads_per_group = warp_size // cols_per_warp
threads_per_group == WarpSize \div ColsPerWarp

\* element idx of a row-major tensor with cols columns
FlatAt(data, cols, idx) == data[idx \div cols][idx % cols]

\* t.reshape(rows, cols) / t.view((-1, cols)) of row-major data with oldCols columns
Reshape(data, oldCols, rows, cols) ==
    [r \in 0 .. (rows - 1) |->
       [c \in 0 .. (cols - 1) |-> FlatAt(data, oldCols, r * cols + c)]]

\* torch.nn.functional.pad(W_q, pad=(0, pad), value=0)
PadCols(data, rows, cols, pad) ==
    [r \in 0 .. (rows - 1) |->
       [c \in 0 .. (cols + pad - 1) |-> IF c < cols THEN data[r][c] ELSE 0]]

\* the shift loop of GemLiteLinearCUDA.pack for one packed word:
\*   shift = 32
\*   for i in range(step): shift -= W_nbits; W_q_packed |= W_q[i::step, :] << shift
CudaPackWord(V, p, c, step, nbits) ==
    OrOfShifted([f \in 1 .. step |-> V[p * step + f - 1][c]],
                [f \in 1 .. step |-> WordBits - f * nbits])

\* the code tensor packing of GemLiteLinearCUDA.pack: [outcome, value]
CudaPackWords(W_q, nbits) ==
    LET tile_size == threads_per_group
        step == WordBits \div nbits
        rows0 == W_q.shape[1]
        cols0 == W_q.shape[2]
        pad == step * cdiv(cols0, step) - cols0
        padded == IF pad > 0 THEN PadCols(W_q.data, rows0, cols0, pad) ELSE W_q.data
        cols == cols0 + pad
        total == rows0 * cols
        vrows == total \div tile_size
        V == Reshape(padded, cols, vrows, tile_size)
        prows == vrows \div step
        P == [p \in 0 .. (prows - 1) |->
                [c \in 0 .. (tile_size - 1) |->
                   CudaPackWord(V, p, c, step, nbits)]]
    IN IF total % tile_size # 0
       THEN [outcome |-> "RuntimeError: shape is invalid for input", value |-> Unset]
       ELSE IF vrows % step # 0
       THEN [outcome |-> "RuntimeError: size of tensors must match", value |-> Unset]
       ELSE [outcome |-> "ok",
             value |-> IntTensor(<<rows0, cols \div step>>,
                                 Reshape(P, tile_size, rows0, cols \div step))]

\* GemLiteLinearCUDA.pack once the words pw (the result of CudaPackWords)
\* are computed: [outcome, self]; self is the object as the call leaves it
CudaPackMeta(self, pw, scales, zeros, bias) ==
    LET s1 == [self EXCEPT !.W_q = pw.value]
        scalesNew == IF scales.kind # "None"
                     THEN (IF self.zero_is_tensor = "True"
                           THEN (IF IsTensor(scales) THEN scales ELSE FloatTensor(<<1, 1>>))
                           ELSE scales)
                     ELSE PyNone
        s2 == [s1 EXCEPT !.scales = scalesNew]
        zerosNew == IF self.zero_is_tensor = "True"
                    THEN (IF IsTensor(zeros) THEN zeros ELSE FloatTensor(<<1, 1>>))
                    ELSE zeros
        s3 == [s2 EXCEPT !.zeros = zerosNew]
        bi == PackBias(bias)
    IN IF pw.outcome # "ok" THEN [outcome |-> pw.outcome, self |-> self]
       ELSE IF (self.has_scales = "True") # (scales.kind # "None")
       THEN [outcome |-> "AssertionError: existence of scales did not match expectation",
             self |-> s1]
       ELSE IF scales.kind # "None" /\ self.zero_is_tensor # "True" /\ IsTensor(scales)
       THEN [outcome |-> "AssertionError", self |-> s1]
       ELSE IF self.zero_is_tensor = "True" /\ zeros.kind = "None"
       THEN [outcome |-> "RuntimeError: Could not infer dtype of NoneType", self |-> s2]
       ELSE IF self.zero_is_tensor # "True" /\ IsTensor(zeros)
       THEN [outcome |-> "AssertionError", self |-> s2]
       ELSE IF bi.outcome # "ok" THEN [outcome |-> bi.outcome, self |-> s3]
       ELSE [outcome |-> "ok", self |-> [s3 EXCEPT !.bias = bi.value]]

\* GemLiteLinearCUDA.pack: [outcome, self]
CudaPack(self, W_q, scales, zeros, bias) ==
    CudaPackMeta(self, CudaPackWords(W_q, self.W_nbits), scales, zeros, bias)

\* the shift loop of GemLiteLinearCUDA.unpack on a packed tensor P:
\*   W_r[i::step, :] = (W_q_packed >> shift) & mask, then W_r.view(W_shape)
CudaUnpackWords(P, nbits) ==
    LET tile_size == threads_per_group
        step == WordBits \div nbits
        prows == P.shape[1]
        pcols == P.shape[2]
        vrows == (prows * pcols) \div tile_size
        Pv == Reshape(P.data, pcols, vrows, tile_size)
        mask == 2 ^ nbits - 1
        W_r == [r \in 0 .. (step * vrows - 1) |->
                  [c \in 0 .. (tile_size - 1) |->
                     AndMask(Shr32(Pv[r \div step][c],
                                   WordBits - nbits * ((r % step) + 1)), mask)]]
    IN IntTensor(<<prows, pcols * step>>,
                 Reshape(W_r, tile_size, prows, pcols * step))

\* GemLiteLinearCUDA.unpack: [outcome, value].  Every read is of the
\* attribute self.W_q_packed; the parameter W_q_packed is overwritten before
\* it is used
CudaUnpack(self, W_q_packed) ==
    IF self.W_q_packed.kind = "unset"
    THEN [outcome |-> "AttributeError: W_q_packed", value |-> Unset]
    ELSE [outcome |-> "ok", value |-> CudaUnpackWords(self.W_q_packed, self.W_nbits)]

---------------------------------------------------------------------------
(* Inputs *)

ObjIds == 1 .. 2
Threads == 1 .. MaxThreads
Latencies == 1 .. MaxLatency

\* a code tensor of shape (rows, cols) with values in [0, 2^nbits - 1]: a
\* background pattern with one probe value pv at (po, pj)
CodeValue(base, nbits, o, j) ==
    IF base = "zero" THEN 0
    ELSE IF base = "max" THEN 2 ^ nbits - 1
    ELSE (o * 5 + j * 3 + 1) % (2 ^ nbits)

Codes(rows, cols, dataRows, nbits, base, po, pj, pv) ==
    IntTensor(<<rows, cols>>,
              [o \in 0 .. (dataRows - 1) |->
                 [j \in 0 .. (cols - 1) |->
                    IF o = po /\ j = pj THEN pv ELSE CodeValue(base, nbits, o, j)]])

\* shapes of the input x of a forward call on an operator
XShapes(self) ==
    { <<1, self.in_features>>, <<9, self.in_features>>,
      <<2, 8, self.in_features>>, <<1, self.in_features - 28>> }

IdleThread ==
    [pc |-> "idle", via |-> "none", obj |-> 0, xshape |-> <<>>, sig |-> <<>>,
     i |-> 0, t |-> <<>>, hit |-> FALSE, nbench |-> 0, invoked |-> NoKernel,
     err |-> "none"]

NoCtor == [cls |-> "none"]
NoPack == [obj |-> 0]
NoUnpack == [outcome |-> "none"]

---------------------------------------------------------------------------
(* The autotune cache and GemLiteLinearTriton.forward_auto.  A forward     *)
(* call is a sequence of steps of its thread; between two steps other      *)
(* threads may run (the GIL is released at least inside do_bench and the   *)
(* kernel launches).                                                       *)

\* _signature = (x.shape[0],) + self.signature
CallSignature(self, xshape) == <<xshape[1]>> \o self.signature

\* a plausible slip: the lookup dropped, every call benchmarks
CacheMissAlways(sig, c) == TRUE

\* a plausible slip: an entry with a latency above the best one is tuned again
CacheMissStale(sig, c) == sig \notin DOMAIN c \/ c[sig].time > 1

\* _signature not in GEMLITE_TRITON_CACHE
CacheMiss(sig, c) == sig \notin DOMAIN c

\* a plausible slip: the dict rebuilt instead of updated
CachePutFresh(c, sig, entry) == [s \in {sig} |-> entry]

\* GEMLITE_TRITON_CACHE[signature] = {"forward": ..., "time": ...}
CachePut(c, sig, entry) ==
    [s \in DOMAIN c \cup {sig} |-> IF s = sig THEN entry ELSE c[s]]

\* a plausible slip: the matmul_type test dropped, every candidate skipped
SkipKernelAnyType(sig, kernel) == sig[1] > GemvMaxBatch

\* if signature[0] > 8 and _kernel.matmul_type == "GEMV": continue
SkipKernel(sig, kernel) == sig[1] > GemvMaxBatch /\ matmul_type(kernel) = "GEMV"

\* a plausible slip: the last index of the minimum
ArgMinLast(t) == CHOOSE i \in 1 .. Len(t) :
                    /\ \A j \in 1 .. Len(t) : t[i] <= t[j]
                    /\ \A j \in (i + 1) .. Len(t) : t[j] > t[i]

\* np.argmin(t): the first index of the minimum (1-based here)
ArgMin(t) == CHOOSE i \in 1 .. Len(t) :
                /\ \A j \in 1 .. Len(t) : t[i] <= t[j]
                /\ \A j \in 1 .. (i - 1) : t[j] > t[i]

Bump(f, k) == [x \in DOMAIN f \cup {k} |-> IF x = k THEN (IF k \in DOMAIN f THEN f[k] + 1 ELSE 1)
                                           ELSE f[x]]

\* a plausible slip: the entry written inside the loop, after a measurement
PassFinishedEarly(i, kernels) == i > 1

\* for _kernel in self.kernels: the loop has gone through every candidate
PassFinished(i, kernels) == i > Len(kernels)

\* forward_auto, lines 314-329: build args and the signature, look it up
Enter(t, o, xshape) ==
    /\ thr[t].pc = "idle"
    /\ ncalls < MaxCalls
    /\ objs[o].cls = "Triton"
    /\ LET self == objs[o]
           sig == CallSignature(self, xshape)
       IN thr' = [thr EXCEPT ![t] =
                    [IdleThread EXCEPT !.pc = IF CacheMiss(sig, cache) THEN "warmup" ELSE "invoke",
                                       !.via = "auto",
                                       !.obj = o,
                                       !.xshape = xshape,
                                       !.sig = sig,
                                       !.i = 1,
                                       !.hit = sig \in DOMAIN cache]]
    /\ ncalls' = ncalls + 1
    /\ UNCHANGED <<objs, cache, npass, ctor, packin, unp, npacks>>

\* warmup, one iteration of the loop over self.kernels: skip, or eval_time
\* returns a latency, or eval_time raises and the exception leaves forward
WarmupIter(t) ==
    /\ thr[t].pc = "warmup"
    /\ ~PassFinished(thr[t].i, objs[thr[t].obj].kernels)
    /\ LET kernel == objs[thr[t].obj].kernels[thr[t].i]
       IN IF SkipKernel(thr[t].sig, kernel)
          THEN thr' = [thr EXCEPT ![t].i = @ + 1]
          ELSE \/ \E lat \in Latencies :
                    thr' = [thr EXCEPT ![t].i = @ + 1,
                                       ![t].t = Append(@, lat),
                                       ![t].nbench = @ + 1]
               \/ thr' = [thr EXCEPT ![t].pc = "raised",
                                     ![t].nbench = @ + 1,
                                     ![t].err = "BenchmarkError"]
    /\ UNCHANGED <<objs, cache, ncalls, npass, ctor, packin, unp, npacks>>

\* warmup, lines 305-309: argmin and the write of the cache entry
WarmupPublish(t) ==
    /\ thr[t].pc = "warmup"
    /\ PassFinished(thr[t].i, objs[thr[t].obj].kernels)
    /\ IF thr[t].t = <<>>
       THEN /\ thr' = [thr EXCEPT ![t].pc = "raised", ![t].err = "ValueError"]
            /\ UNCHANGED <<cache, npass>>
       ELSE LET indx == ArgMin(thr[t].t)
            IN /\ cache' = CachePut(cache, thr[t].sig,
                                    [forward |-> objs[thr[t].obj].kernels[indx],
                                     time |-> thr[t].t[indx]])
               /\ npass' = Bump(npass, thr[t].sig)
               /\ thr' = [thr EXCEPT ![t].pc = "invoke"]
    /\ UNCHANGED <<objs, ncalls, ctor, packin, unp, npacks>>

\* forward_auto, lines 331-335: call the recorded kernel, add the bias
Invoke(t) ==
    /\ thr[t].pc = "invoke"
    /\ LET kernel == cache[thr[t].sig].forward
       IN \/ thr' = [thr EXCEPT ![t].pc = IF objs[thr[t].obj].bias.kind = "unset"
                                           THEN "raised" ELSE "done",
                                ![t].err = IF objs[thr[t].obj].bias.kind = "unset"
                                           THEN "AttributeError: bias" ELSE "none",
                                ![t].invoked = kernel]
          \/ thr' = [thr EXCEPT ![t].pc = "raised",
                                ![t].err = "KernelError",
                                ![t].invoked = kernel]
    /\ UNCHANGED <<objs, cache, ncalls, npass, ctor, packin, unp, npacks>>

\* forward_manual: the kernel of GEMLITE_TRITON_MAPPING, no cache
ForwardManual(t, o, xshape, mt) ==
    /\ thr[t].pc = "idle"
    /\ ncalls < MaxCalls
    /\ objs[o].cls = "Triton"
    /\ LET key == <<objs[o].input_dtype, mt>>
           call == [IdleThread EXCEPT !.via = "manual", !.obj = o, !.xshape = xshape]
       IN IF key \notin DOMAIN GEMLITE_TRITON_MAPPING
          THEN thr' = [thr EXCEPT ![t] = [call EXCEPT !.pc = "raised", !.err = "KeyError"]]
          ELSE \/ thr' = [thr EXCEPT ![t] =
                            [call EXCEPT !.pc = IF objs[o].bias.kind = "unset"
                                                THEN "raised" ELSE "done",
                                         !.err = IF objs[o].bias.kind = "unset"
                                                 THEN "AttributeError: bias" ELSE "none",
                                         !.invoked = GEMLITE_TRITON_MAPPING[key]]]
               \/ thr' = [thr EXCEPT ![t] =
                            [call EXCEPT !.pc = "raised", !.err = "KernelError",
                                         !.invoked = GEMLITE_TRITON_MAPPING[key]]]
    /\ ncalls' = ncalls + 1
    /\ UNCHANGED <<objs, cache, npass, ctor, packin, unp, npacks>>

\* the call has returned or raised: the thread is free for its next call
Return(t) ==
    /\ thr[t].pc \in {"done", "raised"}
    /\ thr' = [thr EXCEPT ![t] = IdleThread]
    /\ UNCHANGED <<objs, cache, ncalls, npass, ctor, packin, unp, npacks>>

---------------------------------------------------------------------------
(* Construction, pack, unpack and GemLiteLinearCUDA.forward as operations  *)
(* on an object slot.                                                      *)

TritonConstruct(o, a) ==
    /\ objs[o] = NoObj
    /\ LET r == TritonInit(a)
       IN /\ objs' = [objs EXCEPT ![o] = r.self]
          /\ ctor' = [cls |-> "Triton", args |-> a, outcome |-> r.outcome,
                      buffers |-> r.buffers]
    /\ UNCHANGED <<cache, thr, ncalls, npass, packin, unp, npacks>>

CudaConstruct(o, a) ==
    /\ objs[o] = NoObj
    /\ LET r == CudaInit(a)
       IN /\ objs' = [objs EXCEPT ![o] = r.self]
          /\ ctor' = [cls |-> "CUDA", args |-> a, outcome |-> r.outcome,
                      buffers |-> r.buffers]
    /\ UNCHANGED <<cache, thr, ncalls, npass, packin, unp, npacks>>

\* pack(W_q, scales, zeros, bias) for some <<scales, zeros, bias>> of metas;
\* the packed codes do not depend on the metadata and are evaluated once
TritonPackCall(o, W_q, metas) ==
    /\ objs[o].cls = "Triton"
    /\ npacks < MaxPacks
    /\ \E packed \in {TritonPackCodes(objs[o], W_q)}, m \in metas :
          LET r == TritonPackMeta(packed, m[1], m[2], m[3])
          IN /\ objs' = [objs EXCEPT ![o] = r.self]
             /\ packin' = [obj |-> o, W_q |-> W_q, scales |-> m[1], zeros |-> m[2],
                           bias |-> m[3], outcome |-> r.outcome]
    /\ npacks' = npacks + 1
    /\ UNCHANGED <<cache, thr, ncalls, npass, ctor, unp>>

CudaPackCall(o, W_q, metas) ==
    /\ objs[o].cls = "CUDA"
    /\ npacks < MaxPacks
    /\ \E pw \in {CudaPackWords(W_q, objs[o].W_nbits)}, m \in metas :
          LET r == CudaPackMeta(objs[o], pw, m[1], m[2], m[3])
          IN /\ objs' = [objs EXCEPT ![o] = r.self]
             /\ packin' = [obj |-> o, W_q |-> W_q, scales |-> m[1], zeros |-> m[2],
                           bias |-> m[3], outcome |-> r.outcome]
    /\ npacks' = npacks + 1
    /\ UNCHANGED <<cache, thr, ncalls, npass, ctor, unp>>

\* unpack called on the packed tensor the operator stores
CudaUnpackCall(o) ==
    /\ objs[o].cls = "CUDA"
    /\ objs[o].W_q.kind = "tensor"
    /\ unp = NoUnpack
    /\ unp' = CudaUnpack(objs[o], objs[o].W_q)
    /\ UNCHANGED <<objs, cache, thr, ncalls, npass, ctor, packin, npacks>>

\* GemLiteLinearCUDA.forward: forward_raw on the flattened input, then bias
CudaForward(t, o, xshape) ==
    /\ thr[t].pc = "idle"
    /\ ncalls < MaxCalls
    /\ objs[o].cls = "CUDA"
    /\ LET self == objs[o]
           call == [IdleThread EXCEPT !.via = "cuda", !.obj = o, !.xshape = xshape]
       IN IF self.W_q.kind = "unset" \/ self.zeros.kind = "unset" \/ self.scales.kind = "unset"
          THEN thr' = [thr EXCEPT ![t] = [call EXCEPT !.pc = "raised",
                                                      !.err = "AttributeError"]]
          ELSE \/ thr' = [thr EXCEPT ![t] =
                            [call EXCEPT !.pc = IF self.bias.kind = "unset"
                                                THEN "raised" ELSE "done",
                                         !.err = IF self.bias.kind = "unset"
                                                 THEN "AttributeError: bias" ELSE "none",
                                         !.invoked = self.kernel_fct]]
               \/ thr' = [thr EXCEPT ![t] =
                            [call EXCEPT !.pc = "raised", !.err = "KernelError",
                                         !.invoked = self.kernel_fct]]
    /\ ncalls' = ncalls + 1
    /\ UNCHANGED <<objs, cache, npass, ctor, packin, unp, npacks>>

---------------------------------------------------------------------------
(* Specifications of the dispatch layer.  The operators exist and are      *)
(* packed (construct, then pack, as in examples/benchmark_triton.py); the  *)
(* callers then run forward.  Spec is the program as the code runs it, one *)
(* caller at a time; SpecConc lets MaxThreads callers interleave.          *)

EmptyMap == [s \in {} |-> 0]

\* a 4-bit operator of the dtype pair (idt, idt), constructed and packed
DispatchObj(idt, tiles) ==
    LET inf == TileGranularity * tiles
        outf == TileGranularity
        made == TritonInit(Args(4, TileGranularity, inf, outf, idt, idt)).self
        ng == inf \div TileGranularity
    IN TritonPack(made, Codes(outf, inf, OutSlice, 4, "ramp", 0, 0, 1),
                  FloatTensor(<<outf, ng>>), FloatTensor(<<outf, ng>>), PyNone).self

DispatchObjs == { DispatchObj(idt, tiles) : idt \in {"FP16", "BF16"}, tiles \in 1 .. MaxTiles }

Init ==
    /\ objs \in [ObjIds -> DispatchObjs]
    /\ cache = EmptyMap
    /\ thr = [t \in Threads |-> IdleThread]
    /\ ncalls = 0
    /\ npass = EmptyMap
    /\ ctor = NoCtor
    /\ packin = NoPack
    /\ unp = NoUnpack
    /\ npacks = 0

ForwardAutoCall(t) ==
    \E o \in ObjIds :
        /\ objs[o].cls = "Triton"
        /\ \E xshape \in XShapes(objs[o]) : Enter(t, o, xshape)

ForwardManualCall(t) ==
    \E o \in ObjIds :
        /\ objs[o].cls = "Triton"
        /\ \E xshape \in XShapes(objs[o]), mt \in {"GEMM", "GEMV"} :
              ForwardManual(t, o, xshape, mt)

Next ==
    \/ ForwardAutoCall(1)
    \/ WarmupIter(1)
    \/ WarmupPublish(1)
    \/ Invoke(1)
    \/ ForwardManualCall(1)
    \/ Return(1)

Spec == Init /\ [][Next]_vars

NextConc ==
    \E t \in Threads :
        \/ ForwardAutoCall(t)
        \/ WarmupIter(t)
        \/ WarmupPublish(t)
        \/ Invoke(t)
        \/ ForwardManualCall(t)
        \/ Return(t)

SpecConc == Init /\ [][NextConc]_vars

---------------------------------------------------------------------------
(* SpecPub: the writers and readers of the cache.  MaxThreads callers run  *)
(* forward_auto on one packed FP16 operator with the same signature (both  *)
(* candidates are measured), in every interleaving of their steps.         *)

InitPub ==
    /\ objs = [o \in ObjIds |-> DispatchObj("FP16", 1)]
    /\ cache = EmptyMap
    /\ thr = [t \in Threads |-> IdleThread]
    /\ ncalls = 0
    /\ npass = EmptyMap
    /\ ctor = NoCtor
    /\ packin = NoPack
    /\ unp = NoUnpack
    /\ npacks = 0

PubAutoCall(t) == Enter(t, 1, <<1, objs[1].in_features>>)

NextPub ==
    \E t \in Threads :
        \/ PubAutoCall(t)
        \/ WarmupIter(t)
        \/ WarmupPublish(t)
        \/ Invoke(t)
        \/ Return(t)

SpecPub == InitPub /\ [][NextPub]_vars

---------------------------------------------------------------------------
(* SpecPack: the packing codecs on code tensors.  An operator of either    *)
(* class is constructed, packed with a code tensor, and (layout A)         *)
(* unpacked.                                                               *)

InitObjects ==
    /\ objs = [o \in ObjIds |-> NoObj]
    /\ cache = EmptyMap
    /\ thr = [t \in Threads |-> IdleThread]
    /\ ncalls = 0
    /\ npass = EmptyMap
    /\ ctor = NoCtor
    /\ packin = NoPack
    /\ unp = NoUnpack
    /\ npacks = 0

PackTritonArgs ==
    { Args(n, TileGranularity, TileGranularity * tiles, TileGranularity, "FP16", "FP16") :
        n \in {1, 2, 4, 8}, tiles \in 1 .. MaxTiles }

\* (W_nbits, in_features, out_features), group_size = in_features * out_features
PackCudaArgs ==
    { Args(d[1], d[2] * d[3], d[2], d[3], "FP16", "FP16") :
        d \in { <<8, 32, 4>>, <<8, 30, 4>>, <<4, 32, 8>>, <<2, 32, 16>>, <<1, 32, 32>> } }

\* code tensors for an operator: each background with a probe value in the
\* last carried row, at the first and last field of a word and of the tensor
CodeInputs(self, dataRows, probeCols) ==
    { Codes(self.out_features, self.in_features, dataRows, self.W_nbits,
            base, dataRows - 1, pj, pv) :
        base \in {"zero", "max", "ramp"},
        pj \in probeCols,
        pv \in {0, 2 ^ self.W_nbits - 1} }

TritonProbeCols(self) ==
    { 0, self.elements_per_sample - 1, self.elements_per_sample, self.in_features - 1 }

CudaProbeCols(self) == { 0, 1, self.in_features - 1 }

ValidMeta(self) ==
    FloatTensor(<<self.out_features, self.in_features \div self.group_size>>)

PackTritonCodes(o) ==
    /\ objs[o].cls = "Triton"
    /\ \E W_q \in CodeInputs(objs[o], OutSlice, TritonProbeCols(objs[o])) :
          TritonPackCall(o, W_q, {<<ValidMeta(objs[o]), ValidMeta(objs[o]), PyNone>>})

PackCudaCodes(o) ==
    /\ objs[o].cls = "CUDA"
    /\ \E W_q \in CodeInputs(objs[o], objs[o].out_features, CudaProbeCols(objs[o])) :
          CudaPackCall(o, W_q, {<<Scalar, Scalar, PyNone>>})

NextPack ==
    \/ \E a \in PackTritonArgs : TritonConstruct(1, a)
    \/ \E a \in PackCudaArgs : CudaConstruct(1, a)
    \/ PackTritonCodes(1)
    \/ PackCudaCodes(1)
    \/ CudaUnpackCall(1)

SpecPack == InitObjects /\ [][NextPack]_vars

---------------------------------------------------------------------------
(* SpecLife: configuration and metadata.  An operator of either class is   *)
(* constructed from arbitrary arguments, packed with metadata of arbitrary *)
(* shape, and (layout A) called.                                           *)

DTypePairs == { <<"FP16", "FP16">>, <<"BF16", "BF16">>, <<"INT8", "INT32">>, <<"FP16", "INT32">> }

LifeTritonArgs ==
    { Args(n, gs, io[1], io[2], dt[1], dt[2]) :
        n \in {3, 4}, gs \in {NoneInt, 96, TileGranularity},
        io \in { <<TileGranularity, TileGranularity>>, <<100, TileGranularity>>,
                 <<TileGranularity, 100>> },
        dt \in DTypePairs }

LifeCudaArgs ==
    { Args(n, gs, 32, 4, dt[1], dt[2]) :
        n \in {1, 3, 8}, gs \in {NoneInt, 3, 32, 128}, dt \in DTypePairs }

\* scales / zeros arguments: the layout pack expects, the transposed layout,
\* one group too many, a Python number, None
MetaInputs(self) ==
    LET ng == self.in_features \div self.group_size
    IN { FloatTensor(<<self.out_features, ng>>),
         FloatTensor(<<ng, self.out_features>>),
         FloatTensor(<<ng + 1, self.out_features>>),
         Scalar, PyNone }

LifeCodes(self) ==
    Codes(self.out_features, self.in_features,
          IF self.cls = "Triton" THEN OutSlice ELSE self.out_features,
          self.W_nbits, "ramp", 0, 0, 1)

PackTritonMeta(o) ==
    /\ objs[o].cls = "Triton"
    /\ TritonPackCall(o, LifeCodes(objs[o]),
                      MetaInputs(objs[o]) \X MetaInputs(objs[o])
                        \X {PyNone, FloatTensor(<<objs[o].out_features>>)})

PackCudaMeta(o) ==
    /\ objs[o].cls = "CUDA"
    /\ CudaPackCall(o, LifeCodes(objs[o]),
                    MetaInputs(objs[o]) \X MetaInputs(objs[o])
                      \X {PyNone, FloatTensor(<<objs[o].out_features>>)})

CudaForwardCall(t) ==
    \E o \in ObjIds :
        /\ objs[o].cls = "CUDA"
        /\ \E xshape \in XShapes(objs[o]) : CudaForward(t, o, xshape)

NextLife ==
    \/ \E a \in LifeTritonArgs : TritonConstruct(1, a)
    \/ \E a \in LifeCudaArgs : CudaConstruct(1, a)
    \/ PackTritonMeta(1)
    \/ PackCudaMeta(1)
    \/ CudaForwardCall(1)
    \/ Return(1)

SpecLife == InitObjects /\ [][NextLife]_vars

---------------------------------------------------------------------------
(* SpecProc: one process, one caller.  A packed operator exists; a second  *)
(* operator is constructed and packed between forward calls, so that every *)
(* kind of operation runs against a cache that holds entries.              *)

InitProc ==
    /\ objs \in { [o \in ObjIds |-> IF o = 1 THEN d ELSE NoObj] : d \in DispatchObjs }
    /\ cache = EmptyMap
    /\ thr = [t \in Threads |-> IdleThread]
    /\ ncalls = 0
    /\ npass = EmptyMap
    /\ ctor = NoCtor
    /\ packin = NoPack
    /\ unp = NoUnpack
    /\ npacks = 0

\* the configuration of an FP16 first operator again, another bit width with
\* the other dtype pair, and a bit width the constructor rejects
ProcTritonArgs ==
    { Args(4, TileGranularity, TileGranularity, TileGranularity, "FP16", "FP16"),
      Args(8, TileGranularity, TileGranularity, TileGranularity, "BF16", "BF16"),
      Args(3, TileGranularity, TileGranularity, TileGranularity, "FP16", "FP16") }

\* the caller is between two forward calls when it constructs or packs
ProcConstruct(t, o) ==
    /\ thr[t].pc = "idle"
    /\ \E a \in ProcTritonArgs : TritonConstruct(o, a)

ProcPack(t, o) ==
    /\ thr[t].pc = "idle"
    /\ objs[o].cls = "Triton"
    /\ TritonPackCall(o, LifeCodes(objs[o]),
                      { <<ValidMeta(objs[o]), ValidMeta(objs[o]), PyNone>> })

\* forward on either operator, with a small and a large batch
ProcAutoCall(t) ==
    \E o \in ObjIds :
        /\ objs[o].cls = "Triton"
        /\ \E b \in {1, 9} : Enter(t, o, <<b, objs[o].in_features>>)

ProcManualCall(t) ==
    \E o \in ObjIds :
        /\ objs[o].cls = "Triton"
        /\ ForwardManual(t, o, <<1, objs[o].in_features>>, "GEMM")

NextProc ==
    \/ ProcConstruct(1, 2)
    \/ ProcPack(1, 2)
    \/ ProcAutoCall(1)
    \/ WarmupIter(1)
    \/ WarmupPublish(1)
    \/ Invoke(1)
    \/ ProcManualCall(1)
    \/ Return(1)

SpecProc == InitProc /\ [][NextProc]_vars

---------------------------------------------------------------------------
(* Properties of the dispatch layer *)

AutoCalls == { t \in Threads : thr[t].via = "auto" }

Candidates(t) == { objs[thr[t].obj].kernels[i] : i \in 1 .. Len(objs[thr[t].obj].kernels) }

\* C1: the kernel a forward_auto call invokes is one of the candidates
\* (self.kernels) of the operator it is called on, whatever other operators
\* have put in the cache.
C1_InvokedKernelIsOwnCandidate ==
    \A t \in AutoCalls : thr[t].invoked # NoKernel => thr[t].invoked \in Candidates(t)

\* C2: a forward_auto call that finds its signature resolved benchmarks
\* nothing (it never enters warmup, eval_time is not called), the entry of
\* that signature has been written by one pass only, and the kernel the
\* call invokes is the one recorded for the signature.
C2_ResolvedSignatureReused ==
    \A t \in AutoCalls :
        thr[t].hit =>
            /\ thr[t].pc # "warmup"
            /\ thr[t].nbench = 0
            /\ thr[t].sig \in DOMAIN cache
            /\ npass[thr[t].sig] = 1
            /\ (thr[t].invoked # NoKernel => thr[t].invoked = cache[thr[t].sig].forward)

\* a later call with a resolved signature has returned, and the recorded
\* kernel it ran is the second candidate
C2_Witness ==
    \E t \in AutoCalls :
        /\ thr[t].hit
        /\ thr[t].pc = "done"
        /\ thr[t].invoked = GEMV
        /\ cache[thr[t].sig].forward = GEMV

\* C3: for callers that run forward_auto concurrently with the same unseen
\* signature, the benchmarking pass of that signature is published once,
\* and the callers that missed the cache all invoke the same kernel.
C3_BenchmarkOnce ==
    /\ \A s \in DOMAIN npass : npass[s] <= 1
    /\ \A t1, t2 \in AutoCalls :
          ( /\ thr[t1].sig = thr[t2].sig
            /\ ~thr[t1].hit /\ ~thr[t2].hit
            /\ thr[t1].invoked # NoKernel /\ thr[t2].invoked # NoKernel )
          => thr[t1].invoked = thr[t2].invoked

\* C6: a benchmarking pass raises to the caller of forward only when every
\* candidate it has to measure has failed: no latency has been measured and
\* no candidate is left unmeasured.
C6_FailingCandidateExcluded ==
    \A t \in AutoCalls :
        thr[t].err = "BenchmarkError" =>
            /\ thr[t].t = <<>>
            /\ \A j \in (thr[t].i + 1) .. Len(objs[thr[t].obj].kernels) :
                  SkipKernel(thr[t].sig, objs[thr[t].obj].kernels[j])

Mismatched(t) ==
    /\ thr[t].pc # "idle"
    /\ thr[t].xshape[Len(thr[t].xshape)] # objs[thr[t].obj].in_features

\* C7: a forward call whose input's trailing dimension is not in_features
\* is rejected by the operator with a shape-mismatch error: no kernel is
\* benchmarked or invoked for it.
C7_ShapeMismatchRejected ==
    \A t \in AutoCalls :
        Mismatched(t) =>
            /\ thr[t].pc = "raised"
            /\ thr[t].err = "ShapeMismatch"
            /\ thr[t].nbench = 0
            /\ thr[t].invoked = NoKernel

\* the signatures in the cache are those of the passes published, each
\* published once, and a forward_auto call that has returned has its
\* signature in the cache
C12_Entries ==
    /\ DOMAIN npass = DOMAIN cache
    /\ \A s \in DOMAIN cache : npass[s] = 1
    /\ \A t \in AutoCalls : thr[t].pc = "done" => thr[t].sig \in DOMAIN cache

\* a step that changes the cache is taken by a forward_auto call that
\* missed, and adds one entry, keyed by the signature of that call, which
\* had none; every other entry stays
C12_Added ==
    cache' # cache =>
        \E t \in AutoCalls :
            /\ ~thr[t].hit
            /\ thr[t].sig \notin DOMAIN cache
            /\ DOMAIN cache' = DOMAIN cache \cup {thr[t].sig}
            /\ \A s \in DOMAIN cache : cache'[s] = cache[s]

\* C12: from an empty cache, with calls made one after another, the cache
\* holds exactly one entry per signature (x.shape[0], in_features,
\* out_features, W_nbits, group_size) called: the first call with a
\* signature adds one entry keyed by it, a call with a signature already
\* there adds none, and nothing else adds or drops an entry.
C12_OneEntryPerSignature == [](C12_Entries) /\ [][C12_Added]_vars

\* two signatures have an entry and a repeated call has returned
C12_Witness ==
    /\ Cardinality(DOMAIN cache) = 2
    /\ \E t \in AutoCalls : thr[t].hit /\ thr[t].pc = "done"

\* C13: the autotune cache is never invalidated.  No step of the process
\* (a construction, a pack, a step of forward_auto with the same or another
\* signature, forward_manual) removes an entry of the cache or changes the
\* kernel or the latency it records.
C13_NeverInvalidated ==
    [][\A s \in DOMAIN cache : s \in DOMAIN cache' /\ cache'[s] = cache[s]]_vars

\* with an entry in the cache, an operator of the same configuration has
\* been constructed and packed, and a forward_auto call on it has returned
C13_Witness ==
    /\ objs[2].cls = "Triton"
    /\ packin # NoPack
    /\ \E t \in AutoCalls :
          /\ thr[t].obj = 2
          /\ thr[t].hit
          /\ thr[t].pc = "done"
          /\ Cardinality(DOMAIN cache) = 2

\* the rows of x.view(-1, x.shape[-1]): the product of the leading dimensions
RECURSIVE LeadingProduct(_, _)
LeadingProduct(xshape, n) ==
    IF n = 0 THEN 1 ELSE xshape[n] * LeadingProduct(xshape, n - 1)

EffectiveBatch(xshape) == LeadingProduct(xshape, Len(xshape) - 1)

\* the candidates whose eval_time has returned in the pass of call t
Benchmarked(t) ==
    { objs[thr[t].obj].kernels[j] : j \in { k \in 1 .. (thr[t].i - 1) :
          ~SkipKernel(thr[t].sig, objs[thr[t].obj].kernels[k]) } }

\* C14: a forward_auto call whose flattened input has more than 8 rows
\* neither benchmarks nor invokes a GEMV kernel, whatever the number of
\* leading dimensions of x and whatever the cache holds.
C14_GemvSkippedAboveThreshold ==
    \A t \in AutoCalls :
        EffectiveBatch(thr[t].xshape) > GemvMaxBatch =>
            /\ \A k \in Benchmarked(t) : matmul_type(k) # "GEMV"
            /\ thr[t].invoked # NoKernel => matmul_type(thr[t].invoked) # "GEMV"

\* the candidates a pass with signature sig measures, in declaration order
MeasuredKernels(self, sig) ==
    LET Measured(k) == ~SkipKernel(sig, k)
    IN SelectSeq(self.kernels, Measured)

\* call t missed the cache and its pass has published an entry
Published(t) == ~thr[t].hit /\ thr[t].pc \in {"invoke", "done"}

\* C15: the entry a pass records holds the candidate with the lowest
\* latency among those it measured, the first of them in declaration order
\* on a tie, and the latency measured for that candidate, also when the
\* GEMV candidate was skipped: the j-th timing belongs to the j-th measured
\* candidate.
C15_FastestKernelRecorded ==
    \A t \in AutoCalls :
        Published(t) =>
            LET mk == MeasuredKernels(objs[thr[t].obj], thr[t].sig)
                e == cache[thr[t].sig]
            IN /\ Len(mk) = Len(thr[t].t)
               /\ \E j \in 1 .. Len(mk) :
                     /\ e.forward = mk[j]
                     /\ e.time = thr[t].t[j]
                     /\ \A i \in 1 .. Len(mk) : thr[t].t[i] >= e.time
                     /\ \A i \in 1 .. (j - 1) : thr[t].t[i] > e.time

\* a pass that skipped the GEMV candidate has recorded an entry, and in a
\* later pass two candidates measured the same latency and the first one
\* was recorded
C15_Witness ==
    /\ \E s \in DOMAIN cache : s[1] > GemvMaxBatch
    /\ \E t \in AutoCalls :
          /\ Published(t)
          /\ Len(thr[t].t) = 2
          /\ thr[t].t[1] = thr[t].t[2]
          /\ cache[thr[t].sig].forward = GEMM

\* every entry a reader can see is a complete (kernel, latency) pair
C16_Complete ==
    \A s \in DOMAIN cache :
        /\ DOMAIN cache[s] = {"forward", "time"}
        /\ cache[s].forward \in {GEMM, GEMV}
        /\ cache[s].time \in Latencies

\* a step that makes an entry visible, or changes one, is the last step of
\* a pass for that signature that has gone through all its candidates and
\* holds a timing for each one it had to measure; the entry is a candidate
\* of that pass with its own timing
C16_WrittenAfterMeasuring ==
    \A s \in DOMAIN cache' :
        (s \notin DOMAIN cache \/ cache'[s] # cache[s]) =>
            \E t \in AutoCalls :
                LET self == objs[thr[t].obj]
                    mk == MeasuredKernels(self, s)
                IN /\ thr[t].pc = "warmup"
                   /\ thr[t].sig = s
                   /\ thr[t].i > Len(self.kernels)
                   /\ Len(thr[t].t) = Len(mk)
                   /\ \E j \in 1 .. Len(mk) :
                         cache'[s] = [forward |-> mk[j], time |-> thr[t].t[j]]
                   /\ thr'[t].pc = "invoke"

\* C16: atomic publish.  In every interleaving of concurrent forward_auto
\* calls the cache holds for a signature either nothing or a complete
\* (kernel, latency) pair, and an entry becomes visible only in the step
\* that ends a pass which has measured all its candidates.
C16_AtomicPublish == [](C16_Complete) /\ [][C16_WrittenAfterMeasuring]_vars

\* an entry is visible to a caller that hit it while another caller's pass
\* for the same signature is still measuring candidates
C16_Witness ==
    \E t1, t2 \in AutoCalls :
        /\ thr[t1].sig = thr[t2].sig
        /\ thr[t1].hit /\ thr[t1].pc = "invoke"
        /\ ~thr[t2].hit /\ thr[t2].pc = "warmup" /\ thr[t2].i = 2

\* C17: for every operator that exists (FP16/FP16 or BF16/BF16) and every
\* batch size, the pass of a call that missed has at least one candidate
\* to measure after the GEMV skip; the minimum is never taken over an
\* empty list, and once the loop has gone through the candidates without
\* a failing benchmark the signature has its entry.
C17_CandidatesNeverEmpty ==
    \A t \in AutoCalls :
        /\ Len(MeasuredKernels(objs[thr[t].obj], thr[t].sig)) >= 1
        /\ thr[t].err # "ValueError"
        /\ (thr[t].pc = "warmup" /\ thr[t].i > Len(objs[thr[t].obj].kernels))
              => thr[t].t # <<>>
        /\ (~thr[t].hit /\ thr[t].pc # "warmup" /\ thr[t].err # "BenchmarkError")
              => thr[t].sig \in DOMAIN cache

\* a pass on an FP16 operator with batch size 9 skipped the GEMV candidate,
\* measured the other one and resolved the signature
C17_Witness ==
    \E t \in AutoCalls :
        /\ Published(t)
        /\ thr[t].sig[1] > GemvMaxBatch
        /\ Len(objs[thr[t].obj].kernels) = 2
        /\ Len(thr[t].t) = 1
        /\ thr[t].sig \in DOMAIN cache

\* the signature of a call whose benchmark raised has no entry, and no pass
\* was ever published for it
C18_StaysUnseen ==
    \A t \in AutoCalls :
        thr[t].err = "BenchmarkError" =>
            /\ ~thr[t].hit
            /\ thr[t].sig \notin DOMAIN cache
            /\ thr[t].sig \notin DOMAIN npass

\* the steps of a pass up to and including the one in which a benchmark
\* raises, and the return of the failed call, leave the cache as it is; a
\* forward_auto call whose signature has no entry starts a pass from the
\* first candidate with no timing carried over
C18_CacheUntouched ==
    \A t \in Threads :
        /\ (thr[t].pc = "warmup" /\ thr'[t].pc \in {"warmup", "raised"}) => cache' = cache
        /\ (thr[t].err = "BenchmarkError" /\ thr'[t].pc = "idle") => cache' = cache
        /\ (thr[t].pc = "idle" /\ thr'[t].via = "auto" /\ thr'[t].sig \notin DOMAIN cache)
              => /\ thr'[t].pc = "warmup"
                 /\ thr'[t].i = 1
                 /\ thr'[t].t = <<>>
                 /\ thr'[t].nbench = 0

\* C18: when a benchmark raises during warmup the cache is left as it was
\* before the forward call: nothing, partial or complete, is written for
\* the signature, which stays UNSEEN, and the next forward_auto call with
\* it starts a fresh pass.
C18_FailedPassLeavesCache == [](C18_StaysUnseen) /\ [][C18_CacheUntouched]_vars

\* with an entry of an earlier call in the cache, a pass measured its first
\* candidate, the benchmark of the second one raised, and the call failed
C18_Witness ==
    \E t \in AutoCalls :
        /\ thr[t].err = "BenchmarkError"
        /\ thr[t].pc = "raised"
        /\ Len(thr[t].t) = 1
        /\ Cardinality(DOMAIN cache) = 1
        /\ thr[t].sig \notin DOMAIN cache

---------------------------------------------------------------------------
(* Properties of the packing codecs (SpecPack) *)

\* C4: layout A round trip.  unpack called on the packed tensor that a
\* GemLiteLinearCUDA operator stores returns the codes given to pack, the
\* zero-padded trailing columns left out.
C4_LayoutARoundTrip ==
    unp.outcome # "none" =>
        /\ unp.outcome = "ok"
        /\ \A o \in 0 .. (packin.W_q.shape[1] - 1), j \in 0 .. (packin.W_q.shape[2] - 1) :
              unp.value.data[o][j] = packin.W_q.data[o][j]

\* bits [lo, lo + n) of an int32 word, as an unsigned number
Field(w, lo, n) == IF lo = WordBits - 1 THEN (IF w < 0 THEN 1 ELSE 0)
                   ELSE (w \div (2 ^ lo)) % (2 ^ n)

PackedTriton(o) ==
    /\ objs[o].cls = "Triton"
    /\ packin # NoPack
    /\ packin.obj = o
    /\ packin.outcome = "ok"

\* C5: layout B packing.  After GemLiteLinearTriton.pack with bit width n
\* and k = 32 / n, the packed tensor has in_features / k rows, every word is
\* an int32, and the code of output row o and input column j is the field
\* of n bits at bit (j mod k) * n of the word at (j div k, o), the top field
\* (bit 31) included.
C5_LayoutBFields ==
    \A x \in ObjIds :
        PackedTriton(x) =>
            LET self == objs[x]
                n == self.W_nbits
                k == WordBits \div n
            IN /\ self.W_q.shape = <<self.in_features \div k, self.out_features>>
               /\ self.W_q.shape[1] * k = self.in_features
               /\ DOMAIN self.W_q.data = 0 .. (self.W_q.shape[1] - 1)
               /\ \A o \in SliceCols(self.out_features), j \in 0 .. (self.in_features - 1) :
                     /\ self.W_q.data[j \div k][o] >= 0 - 2147483647 - 1
                     /\ self.W_q.data[j \div k][o] <= 2147483647
                     /\ Field(self.W_q.data[j \div k][o], (j % k) * n, n)
                           = packin.W_q.data[o][j]

\* an 8-bit or 1-bit tensor has been packed whose top field holds a code
\* with its highest bit set: the word is negative as an int32
C5_Witness ==
    \E x \in ObjIds :
        /\ PackedTriton(x)
        /\ objs[x].W_nbits \in {1, 8}
        /\ \E r \in DOMAIN objs[x].W_q.data, o \in SliceCols(objs[x].out_features) :
              /\ objs[x].W_q.data[r][o] < 0
              /\ packin.W_q.data[o][r * objs[x].elements_per_sample
                                      + objs[x].elements_per_sample - 1]
                    = 2 ^ objs[x].W_nbits - 1

---------------------------------------------------------------------------
(* Properties of construction and metadata (SpecLife) *)

\* C8: an operator whose group_size does not divide in_features (layout B)
\* or in_features * out_features (layout A) does not exist: its
\* construction fails.
C8_GroupSizeCheckedAtConstruction ==
    \A o \in ObjIds :
        /\ objs[o].cls = "Triton" => objs[o].in_features % objs[o].group_size = 0
        /\ objs[o].cls = "CUDA" =>
              (objs[o].in_features * objs[o].out_features) % objs[o].group_size = 0

\* the number of scale (zero) entries of an operator's group layout:
\* in_features / group_size per output row
GroupEntries(self) == self.out_features * (self.in_features \div self.group_size)

BadMeta(self, m) == IsTensor(m) /\ Numel(m.shape) # GroupEntries(self)

\* C9: pack fails for every scales or zeros tensor whose number of entries
\* is not that of the operator's group layout (group_size within a row),
\* and no such tensor is stored in the operator.
C9_MetadataShapeChecked ==
    \A o \in ObjIds :
        (objs[o].cls \in {"Triton", "CUDA"} /\ objs[o].group_size <= objs[o].in_features) =>
            /\ ( /\ packin # NoPack
                 /\ packin.obj = o
                 /\ (BadMeta(objs[o], packin.scales) \/ BadMeta(objs[o], packin.zeros)) )
               => packin.outcome # "ok"
            /\ ~BadMeta(objs[o], objs[o].scales)
            /\ ~BadMeta(objs[o], objs[o].zeros)

BadBits(a) == a.W_nbits \notin {1, 2, 4, 8}

BitsError == "NotImplementedError: Only 2,4,8 W_nbits are supported."

BadShape(a) == a.in_features % TileGranularity # 0 \/ a.out_features % TileGranularity # 0

ShapeError == "NotImplementedError: Invalid input shapes"

\* C11 as stated: GemLiteLinearTriton constructed with in_features or
\* out_features that is not a multiple of 128 fails with the invalid-shape
\* error, with no buffer registered.
C11_InvalidShapeError ==
    (ctor.cls = "Triton" /\ BadShape(ctor.args)) =>
        /\ ctor.outcome = ShapeError
        /\ ctor.buffers = {}

\* C11 amended: GemLiteLinearTriton constructed with in_features or
\* out_features that is not a multiple of 128 always fails, no buffer is
\* registered, no object (and so no candidate list) exists and the autotune
\* cache is as it was; the error is the invalid-shape error when the bit
\* width is one of {1,2,4,8}, whatever the dtype pair and the group size,
\* and the unsupported-bit-width error otherwise.
C11_InvalidShapeRejected ==
    (ctor.cls = "Triton" /\ BadShape(ctor.args)) =>
        /\ ctor.outcome = IF BadBits(ctor.args) THEN BitsError ELSE ShapeError
        /\ ctor.buffers = {}
        /\ \A o \in ObjIds : objs[o] = NoObj
        /\ cache = EmptyMap

\* a 4-bit operator with out_features = 100 and a dtype pair that would
\* also be rejected was asked for, and the invalid-shape error was reported
C11_Witness ==
    /\ ctor.cls = "Triton"
    /\ ctor.args.W_nbits = 4
    /\ ctor.args.out_features = 100
    /\ TritonComputeDtype(ctor.args.input_dtype, ctor.args.output_dtype) = "None"
    /\ ctor.outcome = ShapeError

===========================================================================
